---- MODULE Spec2Model ----
(***************************************************************************)
(* H.264 Annex-B to RTP packetizer (src/src/lib.rs): the NAL scanner       *)
(* get_nal, the send loop send_frame, the packetizer handle_nal with its   *)
(* FU-A fragmentation loop, the header writer send_rtp_over_udp and the    *)
(* 90 kHz clock get_timestamp.                                             *)
(*                                                                         *)
(* Bytes are naturals 0..255.  A Rust slice index i is the TLA+ sequence   *)
(* index i + 1.  u64 values are four 16-bit limbs, least significant       *)
(* first, because the wall clock in microseconds does not fit the          *)
(* integers of the model checker; a u32 is [hi, lo] of 16 bits each.       *)
(***************************************************************************)
EXTENDS Integers, Sequences, FiniteSets, TLC

VARIABLES
    pc,               \* where the pusher is: idle, loop, handle, frag, panicked
    overflow_checks,  \* build profile: TRUE = integer overflow panics (dev), FALSE = wraps (release)
    now,              \* SystemTime::now() in microseconds since the epoch (u64 limbs)
    calls,            \* send_frame calls made so far in the modelled window
    frame_buffer,     \* argument of the running send_frame call
    remaining_at,     \* send_frame: `remaining` is frame_buffer[remaining_at..]
    nal_type,         \* send_frame: nal_type bound by the match
    nal_at,           \* send_frame: nal_buf is frame_buffer[nal_at..nal_at+nal_len]
    nal_len,
    is_last,          \* send_frame: is_last bound by the match (never read by the code)
    FU_A,             \* handle_nal: the two FU bytes
    remaining_nal_at, \* handle_nal: remaining_nal is nal_buf[remaining_nal_at..]
    rtp_buffer,       \* H264RtpPusher fields
    rtp_buffer_size,
    rtp_ts,
    rtp_seq,
    rtp_is_last,
    sent,             \* datagrams handed to socket.send_to during the running call
    transport_faulty, \* environment: socket.send_to may return Err
    nal_log,          \* history: one record per handle_nal invocation of the running call
    session           \* history: summary of the session before the running call

vars == <<pc, overflow_checks, now, calls, frame_buffer, remaining_at, nal_type,
          nal_at, nal_len, is_last, FU_A, remaining_nal_at, rtp_buffer,
          rtp_buffer_size, rtp_ts, rtp_seq, rtp_is_last, sent, nal_log, session,
          transport_faulty>>

----------------------------------------------------------------------------
(* Program constants.                                                      *)

MAX_RTP_BUF_SIZE == 1400
RTP_HEADER_SIZE == 12
FU_A_SIZE == 2
MAX_START_CODE_LENGTH == 4
RTP_BUFFER_LEN == 2048
SSRC == 12345
PAYLOAD_TYPE == 96
U16_MODULUS == 65536

(* H264NalType discriminants. *)
UnKnown == 0
NonIdr == 1
Idr == 5
Sei == 6
Sps == 7
Pps == 8
Aud == 9
EndOfSeq == 10
EndOfStream == 11
Filler == 12

----------------------------------------------------------------------------
(* u8 bit operations.                                                      *)

Pow2(k) == CASE k = 0 -> 1 [] k = 1 -> 2 [] k = 2 -> 4 [] k = 3 -> 8
             [] k = 4 -> 16 [] k = 5 -> 32 [] k = 6 -> 64 [] k = 7 -> 128

Bit(b, k) == (b \div Pow2(k)) % 2

\* b |= m
BitOr(b, m) ==
    LET or(k) == IF Bit(b, k) = 1 \/ Bit(m, k) = 1 THEN Pow2(k) ELSE 0
    IN  or(0) + or(1) + or(2) + or(3) + or(4) + or(5) + or(6) + or(7)

\* b &= !(1 << k)
BitClear(b, k) == IF Bit(b, k) = 1 THEN b - Pow2(k) ELSE b

\* (v << k) as u8, as the compiler evaluates nri_value << 5 on a u8
Shl8(v, k) == (v * Pow2(k)) % 256

----------------------------------------------------------------------------
(* NAL scanner.                                                            *)

None == [some |-> FALSE]

\* input_buffer[i]
At(input_buffer, i) == input_buffer[i + 1]

\* The start_code the loop body assigns at `index`: 3, 4, or 0 for `continue`.
StartCodeAt(input_buffer, index) ==
    IF /\ At(input_buffer, index) = 0
       /\ At(input_buffer, index + 1) = 0
       /\ At(input_buffer, index + 2) = 1
    THEN 3
    ELSE IF /\ At(input_buffer, index) = 0
            /\ At(input_buffer, index + 1) = 0
            /\ At(input_buffer, index + 2) = 0
            /\ At(input_buffer, index + 3) = 1
         THEN 4
         ELSE 0

\* Mutant: every type value taken as it is.
NalTypeEnumAny(possible_nal_start) == possible_nal_start % 32

\* match possible_nal_type { 1 => NonIdr, ..., 12 => Filler, _ => UnKnown }
NalTypeEnum(possible_nal_start) ==
    LET possible_nal_type == possible_nal_start % 32
    IN  IF possible_nal_type \in {NonIdr, Idr, Sei, Sps, Pps, Aud, EndOfSeq,
                                  EndOfStream, Filler}
        THEN possible_nal_type
        ELSE UnKnown

\* Mutant: every start code breaks the loop, whatever the type behind it.
BreaksAtAnyType(input_buffer, index) == StartCodeAt(input_buffer, index) # 0

\* The loop body reaches `break` at `index`.
BreaksAt(input_buffer, index) ==
    LET start_code == StartCodeAt(input_buffer, index)
    IN  /\ start_code # 0
        /\ NalTypeEnum(At(input_buffer, index + start_code)) # UnKnown

\* `for index in from..to { ... break }`: the index the loop breaks at, or -1.
FirstBreak(input_buffer, from, to) ==
    LET hits == {index \in from .. (to - 1) : BreaksAt(input_buffer, index)}
    IN  IF hits = {} THEN -1
        ELSE CHOOSE index \in hits : \A other \in hits : index <= other

\* What get_nal returns once its loops have ended: `first` is the index the
\* first loop broke at, `nal_end_index` the index the second broke at (-1: it
\* ran to its end).
Returns(input_buffer, first, nal_end_index) ==
    LET nal_start_index == first + StartCodeAt(input_buffer, first)
        type == NalTypeEnum(At(input_buffer, nal_start_index))
    IN  IF nal_end_index # -1
        THEN [some |-> TRUE, nal_type |-> type, at |-> nal_start_index,
              len |-> nal_end_index - nal_start_index, is_last |-> FALSE]
        ELSE [some |-> TRUE, nal_type |-> type, at |-> nal_start_index,
              len |-> Len(input_buffer) - nal_start_index, is_last |-> TRUE]

\* The second loop of get_nal, from nal_start_index + start_code on.
SecondLoop(input_buffer, first) ==
    FirstBreak(input_buffer, first + 2 * StartCodeAt(input_buffer, first),
               Len(input_buffer) - MAX_START_CODE_LENGTH)

\* get_nal: the index each loop ends with is bound once (drawn from a
\* singleton) and handed on to what follows the loop.
get_nal(input_buffer) ==
    IF Len(input_buffer) <= MAX_START_CODE_LENGTH THEN None
    ELSE CHOOSE result \in
            {IF first = -1 THEN None
             ELSE CHOOSE found \in
                     {Returns(input_buffer, first, nal_end_index) :
                         nal_end_index \in {SecondLoop(input_buffer, first)}} : TRUE :
                first \in {FirstBreak(input_buffer, 0,
                                      Len(input_buffer) - MAX_START_CODE_LENGTH)}} : TRUE

----------------------------------------------------------------------------
(* u64 arithmetic on four 16-bit limbs, least significant first.           *)

\* x + c (wrapping), c < 65536
U64Add(x, c) ==
    LET s0 == x[1] + c
        s1 == x[2] + (s0 \div U16_MODULUS)
        s2 == x[3] + (s1 \div U16_MODULUS)
        s3 == x[4] + (s2 \div U16_MODULUS)
    IN  <<s0 % U16_MODULUS, s1 % U16_MODULUS, s2 % U16_MODULUS, s3 % U16_MODULUS>>

\* x / d (integer division), d < 32768
U64Div(x, d) ==
    LET t3 == x[4]
        t2 == (t3 % d) * U16_MODULUS + x[3]
        t1 == (t2 % d) * U16_MODULUS + x[2]
        t0 == (t1 % d) * U16_MODULUS + x[1]
    IN  <<t0 \div d, t1 \div d, t2 \div d, t3 \div d>>

\* x * m (wrapping), m < 32768
U64Mul(x, m) ==
    LET p0 == x[1] * m
        p1 == x[2] * m + (p0 \div U16_MODULUS)
        p2 == x[3] * m + (p1 \div U16_MODULUS)
        p3 == x[4] * m + (p2 \div U16_MODULUS)
    IN  <<p0 % U16_MODULUS, p1 % U16_MODULUS, p2 % U16_MODULUS, p3 % U16_MODULUS>>

\* x <= y for u64 limbs
U64Leq(x, y) ==
    \/ x[4] < y[4]
    \/ x[4] = y[4] /\ x[3] < y[3]
    \/ x[4] = y[4] /\ x[3] = y[3] /\ x[2] < y[2]
    \/ x[4] = y[4] /\ x[3] = y[3] /\ x[2] = y[2] /\ x[1] <= y[1]

\* x <= y for u32 values [hi, lo]
U32Leq(x, y) == x.hi < y.hi \/ (x.hi = y.hi /\ x.lo <= y.lo)

\* x as u32
AsU32(x) == [hi |-> x[2], lo |-> x[1]]

\* ((micros + 500) / 1000) * 90, the u64 value before the cast
Ts90k(micros) == U64Mul(U64Div(U64Add(micros, 500), 1000), 90)

\* x % d, d < 32768
U64Rem(x, d) == ((((((x[4] % d) * U16_MODULUS + x[3]) % d) * U16_MODULUS + x[2]) % d)
                    * U16_MODULUS + x[1]) % d

\* Mutant: the microseconds within the second (subsec_micros) in place of
\* the microseconds since the epoch.
get_timestamp_subsec(micros) ==
    LET subsec == U64Rem(U64Div(micros, 1000), 1000) * 1000 + U64Rem(micros, 1000)
        ts90k == ((subsec + 500) \div 1000) * 90
    IN  [hi |-> ts90k \div U16_MODULUS, lo |-> ts90k % U16_MODULUS]

get_timestamp(micros) == AsU32(Ts90k(micros))

----------------------------------------------------------------------------
(* RTP header and transmit.                                                *)

\* Mutant: least significant byte first.
U16LeBytes(v) == <<v % 256, v \div 256>>

\* u16::to_be_bytes
U16BeBytes(v) == <<v \div 256, v % 256>>

U32BeBytes(v) == U16BeBytes(v.hi) \o U16BeBytes(v.lo)

\* RtpHeader::copy_into_array
copy_into_array(header) ==
    <<header.byte1, header.byte2>> \o U16BeBytes(header.seq)
        \o U32BeBytes(header.ts) \o U32BeBytes(header.ssrc)

\* dst[offset .. offset + src.len()].copy_from_slice(src)
CopyFromSlice(dst, offset, src) ==
    SubSeq(dst, 1, offset) \o src \o SubSeq(dst, offset + Len(src) + 1, Len(dst))

\* slice[from .. to]
Slice(s, from, to) == SubSeq(s, from + 1, to)

\* self.rtp_seq += 1 on a u16: wraps in a release build, panics with overflow checks
SeqIncrement(seq) == (seq + 1) % U16_MODULUS

SeqIncrementPanics(seq, checks) == checks /\ seq + 1 >= U16_MODULUS

\* send_rtp_over_udp on a pusher whose payload is already in `buffer`:
\* the buffer and counter it leaves and the datagram it hands to send_to.
send_rtp_over_udp(buffer, size, last, seq, ts) ==
    LET marked == IF last THEN BitOr(0, Pow2(7)) ELSE BitClear(0, 7)
        rtp_header == [byte1 |-> BitOr(0, Shl8(2, 6)),
                       byte2 |-> BitOr(marked, PAYLOAD_TYPE),
                       seq |-> seq, ts |-> ts,
                       ssrc |-> [hi |-> 0, lo |-> SSRC]]
        written == CopyFromSlice(buffer, 0, copy_into_array(rtp_header))
    IN  [rtp_buffer |-> written,
         rtp_seq |-> SeqIncrement(seq),
         datagram |-> Slice(written, 0, size)]

----------------------------------------------------------------------------
(* Inputs: the buffers a caller passes to send_frame and the instants the  *)
(* wall clock shows.                                                       *)

MaxCalls == 2

StartCode(n) == IF n = 3 THEN <<0, 0, 1>> ELSE <<0, 0, 0, 1>>

\* n payload bytes, each telling its position and none of them 0 or 1, so
\* that no start code appears inside a unit.
Payload(n) == [i \in 1 .. n |-> 128 + (i % 100)]

\* One start-code-prefixed NAL unit of `len` bytes: header byte, then payload.
Unit(start_code, header, len) == StartCode(start_code) \o <<header>> \o Payload(len - 1)

SmallLens == {3, 5}

\* Two units of one length, SPS then IDR slice, the second behind a 3-byte
\* start code.
TwoUnitFrames ==
    {Unit(c1, 103, l) \o Unit(3, 101, l) : c1 \in {3, 4}, l \in SmallLens}

\* The buffer of the specification's round-trip example.
ExampleFrame == <<0, 0, 0, 1, 103, 170, 187, 0, 0, 1, 101, 204, 221, 238>>

\* SPS, PPS, IDR slice, three bytes each behind 3-byte start codes.
ThreeUnitFrame == Unit(3, 103, 3) \o Unit(3, 104, 3) \o Unit(3, 101, 3)

\* Bytes ahead of the first start code.
JunkFrames == {<<255, 255>> \o Unit(3, 101, 1) \o Unit(3, 103, 2)}

\* NAL payload bytes one loop fragment carries (packet_size).
FRAGMENT_PAYLOAD == MAX_RTP_BUF_SIZE - FU_A_SIZE

\* NAL lengths around the single-packet limit and the fragment boundaries.
LargeLens ==
    {MAX_RTP_BUF_SIZE - RTP_HEADER_SIZE, MAX_RTP_BUF_SIZE - RTP_HEADER_SIZE + 1,
     FRAGMENT_PAYLOAD + 1, 2 * FRAGMENT_PAYLOAD + 2}

LargeFrames ==
    {Unit(4, 101, l) : l \in LargeLens}
        \cup {Unit(4, 101, FRAGMENT_PAYLOAD + 2) \o Unit(3, 104, 5)}

AnnexBFrames == TwoUnitFrames \cup {ExampleFrame, ThreeUnitFrame} \cup LargeFrames

\* Buffers of 0 to 4 bytes.
ShortFrames == {SubSeq(<<0, 0, 1, 101>>, 1, n) : n \in 0 .. 4}

\* Longer buffers without a unit: no start code at all, a 3-byte start code
\* before type 14, a 4-byte start code before type 0.
NoStartFrames ==
    {<<255, 255, 255, 255, 255, 255>>, <<0, 0, 1, 110, 129, 130>>,
     <<0, 0, 0, 1, 0, 129, 130>>}

NoUnitFrames == ShortFrames \cup NoStartFrames

\* Start codes before an unrecognized type (13, 14) ahead of the first unit
\* and inside it.
FakeCodeFrames ==
    {<<0, 0, 0, 1, 13, 129>> \o Unit(4, 101, 5) \o <<0, 0, 0, 1, 14, 130>>
         \o Unit(3, 104, 5)}

\* A unit for the FU-A arm whose header byte disagrees with the NRI table: an
\* SEI with NRI 3 (0x66).
TypedLargeFrames == {Unit(4, 102, FRAGMENT_PAYLOAD + 2)}

Frames == AnnexBFrames \cup JunkFrames

\* The buffers at the edges of the scanner and of the NRI table, and the
\* example buffer among them.
CornerFrames ==
    NoUnitFrames \cup FakeCodeFrames \cup TypedLargeFrames \cup {ExampleFrame}

\* 2026-11-02 00:12:22.808500, 00:12:22.812000 and 00:12:23.001000 UTC: the
\* 90 kHz value passes a multiple of 2^32 between the first and the second.
ClockBeforeWrap == <<64436, 65535, 24383, 6>>
ClockAfterWrap == <<2400, 0, 24384, 6>>
ClockLater == <<60328, 2, 24384, 6>>
ClockInstants == {ClockBeforeWrap, ClockAfterWrap, ClockLater}

----------------------------------------------------------------------------
(* The pusher.                                                             *)

NoSession == [last_seq |-> -1,
              last_micros |-> <<0, 0, 0, 0>>, last_ts |-> [hi |-> 0, lo |-> 0]]

\* H264RtpPusher::new
new == [rtp_buffer |-> [i \in 1 .. RTP_BUFFER_LEN |-> 0], rtp_buffer_size |-> 0,
        rtp_ts |-> [hi |-> 0, lo |-> 0], rtp_seq |-> 0, rtp_is_last |-> FALSE,
        session |-> NoSession]

\* A pusher that has already sent WarmPackets single-NAL packets, the last of
\* them the two-byte IDR slice 65 81 at ClockBeforeWrap.
WarmPackets == 65534

Warm ==
    LET nal == <<101, 129>>
        ts == get_timestamp(ClockBeforeWrap)
        size == Len(nal) + RTP_HEADER_SIZE
        out == send_rtp_over_udp(CopyFromSlice(new.rtp_buffer, RTP_HEADER_SIZE, nal),
                                 size, TRUE, WarmPackets - 1, ts)
    IN  [rtp_buffer |-> out.rtp_buffer, rtp_buffer_size |-> size, rtp_ts |-> ts,
         rtp_seq |-> out.rtp_seq, rtp_is_last |-> TRUE,
         session |-> [last_seq |-> WarmPackets - 1,
                      last_micros |-> ClockBeforeWrap, last_ts |-> ts]]

InitWith(faulty) ==
    /\ pc = "idle"
    /\ transport_faulty = faulty
    /\ overflow_checks \in BOOLEAN
    /\ now = ClockBeforeWrap
    /\ calls = 0
    /\ frame_buffer = <<>>
    /\ remaining_at = 0
    /\ nal_type = UnKnown
    /\ nal_at = 0
    /\ nal_len = 0
    /\ is_last = FALSE
    /\ FU_A = <<0, 0>>
    /\ remaining_nal_at = 0
    /\ \E pusher \in {new, Warm} :
          /\ rtp_buffer = pusher.rtp_buffer
          /\ rtp_buffer_size = pusher.rtp_buffer_size
          /\ rtp_ts = pusher.rtp_ts
          /\ rtp_seq = pusher.rtp_seq
          /\ rtp_is_last = pusher.rtp_is_last
          /\ session = pusher.session
    /\ sent = <<>>
    /\ nal_log = <<>>

\* The state after construction, with a transport that takes every datagram.
Init == InitWith(FALSE)

\* frame_buffer[remaining_at..]
remaining == Slice(frame_buffer, remaining_at, Len(frame_buffer))

\* frame_buffer[nal_at..nal_at + nal_len]
nal_buf == Slice(frame_buffer, nal_at, nal_at + nal_len)

\* Mutant: the slice is never advanced past the first fragment.
remaining_nal_restarted == Slice(nal_buf, 1, nal_len)

\* nal_buf[remaining_nal_at..]
remaining_nal == Slice(nal_buf, remaining_nal_at, nal_len)

\* The sequence number in the header of a datagram.
SeqOf(data) == data[3] * 256 + data[4]

\* The session summary once the packets and NAL units of the finished call are
\* folded into it.
Folded ==
    [last_seq |-> IF sent = <<>> THEN session.last_seq
                  ELSE SeqOf(sent[Len(sent)].data),
     last_micros |-> IF nal_log = <<>> THEN session.last_micros
                     ELSE nal_log[Len(nal_log)].micros,
     last_ts |-> IF nal_log = <<>> THEN session.last_ts
                 ELSE nal_log[Len(nal_log)].ts]

\* A caller invokes send_frame(frame): let mut remaining = frame_buffer; the
\* locals of the call start afresh.
SendFrame(frame) ==
    /\ pc = "idle"
    /\ calls < MaxCalls
    /\ calls' = calls + 1
    /\ frame_buffer' = frame
    /\ remaining_at' = 0
    /\ session' = Folded
    /\ sent' = <<>>
    /\ nal_log' = <<>>
    /\ nal_type' = UnKnown
    /\ nal_at' = 0
    /\ nal_len' = 0
    /\ is_last' = FALSE
    /\ FU_A' = <<0, 0>>
    /\ remaining_nal_at' = 0
    /\ pc' = "loop"
    /\ UNCHANGED <<overflow_checks, transport_faulty, now, rtp_buffer, rtp_buffer_size, rtp_ts, rtp_seq,
                   rtp_is_last>>

\* send_frame: match get_nal(remaining) { Some(..) => .., None => break }
GetNal ==
    /\ pc = "loop"
    /\ \E found \in {get_nal(remaining)} :
           IF found.some
           THEN /\ nal_type' = found.nal_type
                /\ nal_at' = remaining_at + found.at
                /\ nal_len' = found.len
                /\ is_last' = found.is_last
                /\ pc' = "handle"
           ELSE /\ pc' = "idle"
                /\ UNCHANGED <<nal_type, nal_at, nal_len, is_last>>
    /\ UNCHANGED <<overflow_checks, transport_faulty, now, calls, frame_buffer, remaining_at, FU_A,
                   remaining_nal_at, rtp_buffer, rtp_buffer_size, rtp_ts, rtp_seq,
                   rtp_is_last, sent, nal_log, session>>

\* The record handle_nal's invocation leaves in the history.
Logged(ts) ==
    [nal_type |-> nal_type, at |-> nal_at, len |-> nal_len, is_last |-> is_last,
     micros |-> now, ts |-> ts]

\* What self.socket.send_to(..) can return: Ok (TRUE), or Err (FALSE) as well
\* when the transport is faulty.
SendToResults == IF transport_faulty THEN BOOLEAN ELSE {TRUE}

\* Mutant: an Err of send_to ends the call.
AfterSendChecked(ok, next_pc) == IF ok THEN next_pc ELSE "idle"

\* self.socket.send_to(..); the value is dropped and control goes on
\* whatever it was.
AfterSend(ok, next_pc) == next_pc

\* One call of send_rtp_over_udp from handle_nal with the payload in `buffer`,
\* which holds nal_buf[from..to] of the NAL unit that is entry `nal` of the
\* history: overflow of rtp_seq panics before the header is written or anything is sent.
Transmit(buffer, size, last, ts, nal, from, to, next_pc) ==
    IF SeqIncrementPanics(rtp_seq, overflow_checks)
    THEN /\ pc' = "panicked"
         /\ rtp_buffer' = buffer
         /\ UNCHANGED <<rtp_seq, sent>>
    ELSE \E out \in {send_rtp_over_udp(buffer, size, last, rtp_seq, ts)},
            ok \in SendToResults :
             /\ pc' = AfterSend(ok, next_pc)
             /\ rtp_buffer' = out.rtp_buffer
             /\ rtp_seq' = out.rtp_seq
             /\ sent' = Append(sent, [data |-> out.datagram, nal |-> nal,
                                      from |-> from, to |-> to, ok |-> ok])

\* Mutant: the clock read again for every packet.
HeaderTsFresh(held, clock) == get_timestamp(clock)

\* rtp_header.ts = self.rtp_ts: the header takes the timestamp the pusher
\* holds, whatever the clock shows by now.
HeaderTs(held, clock) == held

\* Mutant: `remaining` stays where it is.
AdvanceNowhere(at, len) == at

\* remaining = &remaining[nal_buf.len()..]: where `remaining` begins afterwards.
Advance(at, len) == at + len

\* Mutant: every unit takes the single-packet arm.
FitsSinglePacketAlways(len) == TRUE

\* Mutant: the comparison made strict.
FitsSinglePacketStrict(len) == len + RTP_HEADER_SIZE < MAX_RTP_BUF_SIZE

\* if nal_buf.len() + RTP_HEADER_SIZE <= MAX_RTP_BUF_SIZE
FitsSinglePacket(len) == len + RTP_HEADER_SIZE <= MAX_RTP_BUF_SIZE

\* handle_nal, the arm that needs no fragmentation, and the advance of
\* `remaining` that follows it in send_frame.
HandleNalSingle ==
    /\ pc = "handle"
    /\ FitsSinglePacket(nal_len)
    /\ rtp_ts' = get_timestamp(now)
    /\ rtp_buffer_size' = nal_len + RTP_HEADER_SIZE
    /\ rtp_is_last' = TRUE
    /\ nal_log' = Append(nal_log, Logged(rtp_ts'))
    /\ Transmit(CopyFromSlice(rtp_buffer, RTP_HEADER_SIZE, nal_buf),
                rtp_buffer_size', TRUE, HeaderTs(rtp_ts', now), Len(nal_log) + 1, 0,
                nal_len, "loop")
    /\ remaining_at' = IF pc' = "panicked" THEN remaining_at
                       ELSE Advance(remaining_at, nal_len)
    /\ UNCHANGED <<overflow_checks, transport_faulty, now, calls, frame_buffer, nal_type, nal_at,
                   nal_len, is_last, FU_A, remaining_nal_at, session>>

\* Mutant: the same NRI for every type.
nri_value_always(type) == 3

\* match nal_type { Sps | Pps | Idr | NonIdr => 3, _ => 0 }
nri_value(type) == IF type \in {Sps, Pps, Idr, NonIdr} THEN 3 ELSE 0

\* The FU_A bytes handle_nal builds before its loop.
FuHeader(type) ==
    LET indicator == BitOr(BitClear(BitOr(0, 28), 7), Shl8(nri_value(type), 5))
        header == BitClear(BitOr(BitClear(BitOr(0, type), 5), Pow2(7)), 6)
    IN  <<indicator, header>>

\* handle_nal, the FU-A arm up to its loop.
HandleNalFragmented ==
    /\ pc = "handle"
    /\ ~FitsSinglePacket(nal_len)
    /\ rtp_ts' = get_timestamp(now)
    /\ FU_A' = FuHeader(nal_type)
    /\ remaining_nal_at' = 1
    /\ nal_log' = Append(nal_log, Logged(rtp_ts'))
    /\ pc' = "frag"
    /\ UNCHANGED <<overflow_checks, transport_faulty, now, calls, frame_buffer, remaining_at, nal_type,
                   nal_at, nal_len, is_last, rtp_buffer, rtp_buffer_size, rtp_seq,
                   rtp_is_last, sent, session>>

\* The loop condition: remaining_nal.len() + FU_A_SIZE >= MAX_RTP_BUF_SIZE
MoreFragments == (nal_len - remaining_nal_at) + FU_A_SIZE >= MAX_RTP_BUF_SIZE

\* One iteration of the fragment loop.
SendFragment ==
    /\ pc = "frag"
    /\ MoreFragments
    /\ rtp_buffer_size' = RTP_HEADER_SIZE + MAX_RTP_BUF_SIZE
    /\ rtp_is_last' = FALSE
    /\ LET packet_size == MAX_RTP_BUF_SIZE - FU_A_SIZE
           with_fu == CopyFromSlice(rtp_buffer, RTP_HEADER_SIZE, FU_A)
           with_body == CopyFromSlice(with_fu, RTP_HEADER_SIZE + FU_A_SIZE,
                                      Slice(remaining_nal, 0, packet_size))
       IN  /\ Transmit(with_body, rtp_buffer_size', FALSE, HeaderTs(rtp_ts, now),
                       Len(nal_log),
                       remaining_nal_at, remaining_nal_at + packet_size, "frag")
           /\ IF pc' = "panicked"
              THEN UNCHANGED <<remaining_nal_at, FU_A>>
              ELSE /\ remaining_nal_at' = remaining_nal_at + packet_size
                   /\ FU_A' = <<FU_A[1], BitClear(FU_A[2], 7)>>
    /\ UNCHANGED <<overflow_checks, transport_faulty, now, calls, frame_buffer, remaining_at, nal_type,
                   nal_at, nal_len, is_last, rtp_ts, nal_log, session>>

\* The last packet after the loop, and the advance of `remaining` that
\* follows handle_nal in send_frame.
SendLastFragment ==
    /\ pc = "frag"
    /\ ~MoreFragments
    /\ rtp_buffer_size' = RTP_HEADER_SIZE + FU_A_SIZE + Len(remaining_nal)
    /\ rtp_is_last' = TRUE
    /\ FU_A' = <<FU_A[1], BitOr(FU_A[2], Pow2(6))>>
    /\ LET with_fu == CopyFromSlice(rtp_buffer, RTP_HEADER_SIZE, FU_A')
           with_body == CopyFromSlice(with_fu, RTP_HEADER_SIZE + FU_A_SIZE,
                                      remaining_nal)
       IN  Transmit(with_body, rtp_buffer_size', TRUE, HeaderTs(rtp_ts, now),
                    Len(nal_log),
                    remaining_nal_at, nal_len, "loop")
    /\ remaining_at' = IF pc' = "panicked" THEN remaining_at
                       ELSE Advance(remaining_at, nal_len)
    /\ UNCHANGED <<overflow_checks, transport_faulty, now, calls, frame_buffer, nal_type, nal_at,
                   nal_len, is_last, remaining_nal_at, rtp_ts, nal_log, session>>

\* The wall clock moves on to a later instant.
Tick(instant) ==
    /\ pc # "panicked"
    /\ instant # now
    /\ U64Leq(now, instant)
    /\ now' = instant
    /\ UNCHANGED <<pc, overflow_checks, transport_faulty, calls, frame_buffer, remaining_at, nal_type,
                   nal_at, nal_len, is_last, FU_A, remaining_nal_at, rtp_buffer,
                   rtp_buffer_size, rtp_ts, rtp_seq, rtp_is_last, sent, nal_log,
                   session>>

Next ==
    \/ \E frame \in Frames : SendFrame(frame)
    \/ GetNal
    \/ HandleNalSingle
    \/ HandleNalFragmented
    \/ SendFragment
    \/ SendLastFragment
    \/ \E instant \in ClockInstants : Tick(instant)

Spec == Init /\ [][Next]_vars

\* The same steps with the caller passing the buffers of CornerFrames.
CornerNext ==
    \/ \E frame \in CornerFrames : SendFrame(frame)
    \/ GetNal
    \/ HandleNalSingle
    \/ HandleNalFragmented
    \/ SendFragment
    \/ SendLastFragment
    \/ \E instant \in ClockInstants : Tick(instant)

CornerSpec == Init /\ [][CornerNext]_vars

\* The buffers of the calls over a faulty transport: three small units, and a
\* unit of three fragments with a small unit behind it.
LossyFrames ==
    {ThreeUnitFrame, Unit(4, 101, 2 * FRAGMENT_PAYLOAD + 2) \o Unit(3, 104, 5)}

\* The state after construction, with a transport that may refuse any datagram.
LossyInit == InitWith(TRUE)

\* The steps of send_frame on the buffers of LossyFrames; the clock stands
\* still.
LossyNext ==
    \/ \E frame \in LossyFrames : SendFrame(frame)
    \/ GetNal
    \/ HandleNalSingle
    \/ HandleNalFragmented
    \/ SendFragment
    \/ SendLastFragment

LossySpec == LossyInit /\ [][LossyNext]_vars

\* The buffers of the termination check: three units that the loop handles
\* in five rounds, a buffer without a unit, a unit of three fragments, and
\* bytes ahead of the first start code.
TerminationFrames ==
    {ThreeUnitFrame, <<0, 0, 1, 110, 129, 130>>, Unit(4, 101, 2 * FRAGMENT_PAYLOAD + 2)}
        \cup JunkFrames

\* The steps of the termination check: the clock stands still, since no step
\* of send_frame depends on what it shows.
FairNext ==
    \/ \E frame \in TerminationFrames : SendFrame(frame)
    \/ GetNal
    \/ HandleNalSingle
    \/ HandleNalFragmented
    \/ SendFragment
    \/ SendLastFragment

\* send_frame is straight-line code on one thread: once called it takes its
\* next step; the caller is under no obligation to call again.
FairSpec ==
    /\ Init
    /\ [][FairNext]_vars
    /\ WF_vars(GetNal)
    /\ WF_vars(HandleNalSingle)
    /\ WF_vars(HandleNalFragmented)
    /\ WF_vars(SendFragment)
    /\ WF_vars(SendLastFragment)

----------------------------------------------------------------------------
(* What the properties read off the history.                               *)

Min(S) == CHOOSE x \in S : \A y \in S : x <= y
Max(S) == CHOOSE x \in S : \A y \in S : x >= y

\* Header fields of a datagram.
Marker(data) == Bit(data[2], 7)
TsOf(data) == [hi |-> data[5] * 256 + data[6], lo |-> data[7] * 256 + data[8]]
StartBit(data) == Bit(data[RTP_HEADER_SIZE + 2], 7)
EndBit(data) == Bit(data[RTP_HEADER_SIZE + 2], 6)

\* The packets sent for entry k of nal_log, as indices of sent.
Packets(k) == {i \in 1 .. Len(sent) : sent[i].nal = k}

\* handle_nal has returned for entry k of nal_log.
Completed(k) ==
    /\ k \in 1 .. Len(nal_log)
    /\ k < Len(nal_log) \/ pc \in {"loop", "handle", "idle"}

\* The bytes of the NAL unit of entry k.
NalBytes(k) == Slice(frame_buffer, nal_log[k].at, nal_log[k].at + nal_log[k].len)

\* Entry k went down the FU-A arm: L + 12 > 1400.
Fragmented(k) == nal_log[k].len + 12 > 1400

\* The NAL units of an Annex-B buffer, read off the buffer itself: a unit
\* starts at a recognized header byte behind 00 00 01 and ends where the start
\* code of the next one begins (or at the end of the buffer).
UnitHeaders(buf) ==
    {h \in 3 .. Len(buf) - 1 :
        /\ At(buf, h - 3) = 0 /\ At(buf, h - 2) = 0 /\ At(buf, h - 1) = 1
        /\ (At(buf, h) % 32) \in {1, 5, 6, 7, 8, 9, 10, 11, 12}}

CodeBegin(buf, h) == IF h >= 4 /\ At(buf, h - 4) = 0 THEN h - 4 ELSE h - 3

UnitAt(buf, h) ==
    LET later == {g \in UnitHeaders(buf) : g > h}
    IN  [nal_type |-> At(buf, h) % 32, at |-> h,
         len |-> (IF later = {} THEN Len(buf) ELSE CodeBegin(buf, Min(later))) - h,
         is_last |-> later = {}]

Units(buf) ==
    LET hs == UnitHeaders(buf)
    IN  [k \in 1 .. Cardinality(hs) |->
            UnitAt(buf, CHOOSE h \in hs : Cardinality({g \in hs : g < h}) = k - 1)]

\* What get_nal returned, as send_frame holds it at the head of the match arm.
Returned == [nal_type |-> nal_type, at |-> nal_at, len |-> nal_len, is_last |-> is_last]

----------------------------------------------------------------------------
(* Properties.                                                             *)

\* C1: on a buffer of two or more start-code-prefixed units, the first
\* get_nal of a call returns the first unit: its type, the bytes from its
\* header byte up to the next start code, flagged non-trailing; and the
\* example buffer yields (SPS, 67 AA BB, false), then (IDR, 65 CC DD EE, true).
C1_FirstUnitReturned ==
    /\ (/\ pc = "handle"
        /\ remaining_at = 0
        /\ frame_buffer \in AnnexBFrames
        /\ Cardinality(UnitHeaders(frame_buffer)) >= 2)
       => Returned = Units(frame_buffer)[1]
    /\ (frame_buffer = ExampleFrame /\ Len(nal_log) >= 1)
       => /\ nal_log[1].nal_type = Sps /\ nal_log[1].is_last = FALSE
          /\ NalBytes(1) = <<103, 170, 187>>
    /\ (frame_buffer = ExampleFrame /\ Len(nal_log) >= 2)
       => /\ nal_log[2].nal_type = Idr /\ nal_log[2].is_last = TRUE
          /\ NalBytes(2) = <<101, 204, 221, 238>>

\* C2: when send_frame returns from an Annex-B buffer, handle_nal has been
\* given every unit of the buffer exactly once, in stream order.
C2_EveryUnitHandledOnce ==
    (pc = "idle" /\ calls > 0 /\ frame_buffer \in AnnexBFrames)
    => LET units == Units(frame_buffer)
       IN  /\ Len(nal_log) = Len(units)
           /\ \A k \in 1 .. Len(units) :
                 nal_log[k].at = units[k].at /\ nal_log[k].len = units[k].len

\* C3: a new pusher's first packet carries sequence 0, every later packet of
\* the session the previous one's plus 1 modulo 65536, and sending goes on
\* past 65535.
C3_SequenceConsecutive ==
    /\ pc # "panicked"
    /\ (session.last_seq = -1 /\ sent # <<>>) => SeqOf(sent[1].data) = 0
    /\ (session.last_seq # -1 /\ sent # <<>>)
       => SeqOf(sent[1].data) = (session.last_seq + 1) % 65536
    /\ \A i \in 1 .. Len(sent) - 1 :
          SeqOf(sent[i + 1].data) = (SeqOf(sent[i].data) + 1) % 65536

\* C4: every packet handed to the transport is at most 1400 bytes long.
C4_PacketWithinBudget ==
    \A i \in 1 .. Len(sent) : Len(sent[i].data) <= 1400

\* C5: a unit of length L with L + 12 > 1400 goes out as ceil((L - 1) / 1386)
\* packets.
C5_FragmentCount ==
    \A k \in 1 .. Len(nal_log) :
        (Completed(k) /\ Fragmented(k))
        => Cardinality(Packets(k)) = (nal_log[k].len - 1 + 1385) \div 1386

\* C6: of the fragments of a unit the first has Start=1 End=0, the middle
\* ones Start=0 End=0, the last Start=0 End=1; first and last are distinct
\* packets.
C6_StartEndBits ==
    \A k \in 1 .. Len(nal_log) :
        (Completed(k) /\ Fragmented(k))
        => LET first == Min(Packets(k))
               last == Max(Packets(k))
           IN  /\ first # last
               /\ \A i \in Packets(k) :
                     /\ StartBit(sent[i].data) = (IF i = first THEN 1 ELSE 0)
                     /\ EndBit(sent[i].data) = (IF i = last THEN 1 ELSE 0)

\* C7: a unit of length L with L + 12 <= 1400 goes out as exactly one packet
\* of L + 12 bytes, the unit's bytes unchanged behind the 12-byte header,
\* marker bit 1.
C7_SinglePacket ==
    \A k \in 1 .. Len(nal_log) :
        (Completed(k) /\ nal_log[k].len + 12 <= 1400)
        => /\ Cardinality(Packets(k)) = 1
           /\ \A i \in Packets(k) :
                 /\ Len(sent[i].data) = nal_log[k].len + 12
                 /\ SubSeq(sent[i].data, 13, Len(sent[i].data)) = NalBytes(k)
                 /\ Marker(sent[i].data) = 1

\* A unit of exactly 1388 bytes, the longest that fits, has gone out.
C7_Witness ==
    \E k \in 1 .. Len(nal_log) :
        Completed(k) /\ nal_log[k].len + 12 = 1400 /\ Packets(k) # {}

\* C8: the packets of one unit are a contiguous run, and the marker bit is 1
\* on exactly the last packet of the run, which carries the unit's final byte.
C8_MarkerOnLastByte ==
    /\ \A i, j \in 1 .. Len(sent) : i <= j => sent[i].nal <= sent[j].nal
    /\ \A k \in 1 .. Len(nal_log) :
          Completed(k)
          => /\ Packets(k) # {}
             /\ \A i \in Packets(k) :
                   Marker(sent[i].data) = (IF i = Max(Packets(k)) THEN 1 ELSE 0)
             /\ LET last == sent[Max(Packets(k))]
                IN  last.from < last.to /\ last.to = nal_log[k].len

\* C9: once the unit get_nal flagged trailing has been handled, the call
\* sends no packet for any further unit.
C9_TrailingUnitIsLast ==
    \A k \in 1 .. Len(nal_log) :
        nal_log[k].is_last => \A i \in 1 .. Len(sent) : sent[i].nal <= k

\* The instant and timestamp of the unit a packet belongs to.
MicrosOf(i) == nal_log[sent[i].nal].micros

\* C10 as stated: a unit processed no later than another carries a timestamp
\* no greater, whatever the wall clock shows.
C10_TimestampsNonDecreasing ==
    /\ \A i, j \in 1 .. Len(sent) :
          U64Leq(MicrosOf(i), MicrosOf(j))
          => U32Leq(TsOf(sent[i].data), TsOf(sent[j].data))
    /\ \A j \in 1 .. Len(sent) :
          (session.last_seq # -1 /\ U64Leq(session.last_micros, MicrosOf(j)))
          => U32Leq(session.last_ts, TsOf(sent[j].data))

\* The upper 32 bits of the 90 kHz value: which 2^32 period it lies in.
Period(micros) == <<Ts90k(micros)[3], Ts90k(micros)[4]>>

\* C10 amended: a unit processed no later than another carries a timestamp
\* no greater, provided the 90 kHz values of the two instants lie in the same
\* 2^32 period (the cast to u32 starts over at each multiple).
C10_NonDecreasingWithinPeriod ==
    /\ \A i, j \in 1 .. Len(sent) :
          (/\ U64Leq(MicrosOf(i), MicrosOf(j))
           /\ Period(MicrosOf(i)) = Period(MicrosOf(j)))
          => U32Leq(TsOf(sent[i].data), TsOf(sent[j].data))
    /\ \A j \in 1 .. Len(sent) :
          (/\ session.last_seq # -1
           /\ U64Leq(session.last_micros, MicrosOf(j))
           /\ Period(session.last_micros) = Period(MicrosOf(j)))
          => U32Leq(session.last_ts, TsOf(sent[j].data))

\* Two units of one call processed at different instants of one period, the
\* later one with the greater timestamp.
C10_Witness ==
    \E i, j \in 1 .. Len(sent) :
        /\ sent[i].nal < sent[j].nal
        /\ MicrosOf(i) # MicrosOf(j)
        /\ U64Leq(MicrosOf(i), MicrosOf(j))
        /\ Period(MicrosOf(i)) = Period(MicrosOf(j))
        /\ TsOf(sent[i].data) # TsOf(sent[j].data)

\* C11: all packets of one unit carry one timestamp, the one read when
\* handle_nal began, also when the clock moves on between the fragments.
C11_OneTimestampPerUnit ==
    \A i \in 1 .. Len(sent) :
        /\ TsOf(sent[i].data) = get_timestamp(MicrosOf(i))
        /\ \A j \in 1 .. Len(sent) :
              sent[i].nal = sent[j].nal => TsOf(sent[i].data) = TsOf(sent[j].data)

\* The unit in hand has gone out in two packets or more and the clock no
\* longer shows the instant at which its timestamp was read: a fresh reading
\* would give another value.
C11_Witness ==
    /\ nal_log # <<>>
    /\ Cardinality(Packets(Len(nal_log))) >= 2
    /\ get_timestamp(now) # nal_log[Len(nal_log)].ts
    /\ \A i \in Packets(Len(nal_log)) : TsOf(sent[i].data) = nal_log[Len(nal_log)].ts

\* A buffer without a unit: at most 4 bytes long, or without a start code
\* that is followed by a recognized type byte.
NoUnit(buf) == Len(buf) <= 4 \/ UnitHeaders(buf) = {}

\* C12: on a buffer of 0 to 4 bytes, or one without a start code followed by
\* a recognized type, get_nal returns nothing, send_frame sends no packet,
\* leaves the sequence counter as it was and returns without a panic.
C12_NothingSent ==
    (calls > 0 /\ NoUnit(frame_buffer))
    => /\ get_nal(frame_buffer) = None
       /\ pc \in {"loop", "idle"}
       /\ sent = <<>>
       /\ nal_log = <<>>
       /\ rtp_seq = (session.last_seq + 1) % 65536

\* send_frame has returned from a buffer longer than 4 bytes that begins with
\* a start code before an unrecognized type, in a session that has sent
\* packets before.
C12_Witness ==
    /\ pc = "idle"
    /\ calls > 0
    /\ Len(frame_buffer) > 4
    /\ StartCodeAt(frame_buffer, 0) # 0
    /\ UnitHeaders(frame_buffer) = {}
    /\ session.last_seq >= 0
    /\ session.last_seq # -1

\* C13: the first 12 bytes of every packet are 0x80, marker<<7 | 96, the
\* session sequence number, the unit's timestamp and the SSRC 12345, the
\* last three big-endian.
C13_HeaderLayout ==
    \A i \in 1 .. Len(sent) :
        LET data == sent[i].data
            seq == (session.last_seq + i) % 65536
            ts == get_timestamp(MicrosOf(i))
        IN  /\ Len(data) >= 12
            /\ data[1] = 128
            /\ data[2] \in {96, 128 + 96}
            /\ <<data[3], data[4]>> = <<seq \div 256, seq % 256>>
            /\ <<data[5], data[6]>> = <<ts.hi \div 256, ts.hi % 256>>
            /\ <<data[7], data[8]>> = <<ts.lo \div 256, ts.lo % 256>>
            /\ <<data[9], data[10], data[11], data[12]>> = <<0, 0, 48, 57>>

\* A packet with marker 0 and one with marker 1 have gone out, with a
\* sequence number and a timestamp whose bytes tell the byte order.
C13_Witness ==
    /\ \E i \in 1 .. Len(sent) :
          /\ sent[i].data[2] = 96
          /\ sent[i].data[3] # sent[i].data[4]
          /\ sent[i].data[5] # sent[i].data[8]
    /\ \E i \in 1 .. Len(sent) : sent[i].data[2] = 128 + 96

\* The bytes behind 00 00 01 whose type is not a recognized one.
FakeHeaders(buf) ==
    {h \in 3 .. Len(buf) - 1 :
        /\ At(buf, h - 3) = 0 /\ At(buf, h - 2) = 0 /\ At(buf, h - 1) = 1
        /\ (At(buf, h) % 32) \notin {1, 5, 6, 7, 8, 9, 10, 11, 12}}

\* C14: a unit get_nal returns has a recognized type and begins at a header
\* byte of that type behind a start code; it ends at the end of the buffer or
\* where a start code before a recognized type begins; a start code before
\* any other type neither starts nor ends it and stays inside the unit.
C14_OnlyRecognizedBoundaries ==
    pc = "handle"
    => LET end == nal_at + nal_len
           real == UnitHeaders(frame_buffer)
           fake == FakeHeaders(frame_buffer)
       IN  /\ nal_type \in {1, 5, 6, 7, 8, 9, 10, 11, 12}
           /\ nal_at \in real
           /\ At(frame_buffer, nal_at) % 32 = nal_type
           /\ \/ end = Len(frame_buffer)
              \/ end + 3 \in real
              \/ end + 4 \in real /\ At(frame_buffer, end) = 0
           /\ \A h \in fake :
                 /\ nal_at # h
                 /\ end \notin {h - 3, h - 4}
                 /\ (h > nal_at /\ ~ \E g \in real : nal_at < g /\ g < h) => h <= end

\* get_nal has returned a unit that has a start code before an unrecognized
\* type ahead of it and another inside it, and that ends at a later start
\* code before a recognized type.
C14_Witness ==
    /\ pc = "handle"
    /\ ~is_last
    /\ \E h \in FakeHeaders(frame_buffer) : h < nal_at
    /\ \E h \in FakeHeaders(frame_buffer) : nal_at < h /\ h < nal_at + nal_len

\* The bodies (the bytes behind RTP header and FU header) of the packets of
\* entry k from packet i on, joined in the order of sending.
RECURSIVE FragmentBodies(_, _)
FragmentBodies(k, i) ==
    IF i > Len(sent) THEN <<>>
    ELSE (IF sent[i].nal = k
          THEN SubSeq(sent[i].data, RTP_HEADER_SIZE + FU_A_SIZE + 1, Len(sent[i].data))
          ELSE <<>>) \o FragmentBodies(k, i + 1)

\* C15: the fragment bodies of a fragmented unit, joined in the order of
\* sending, are the unit's bytes without its header byte.
C15_ReassemblyRoundTrip ==
    \A k \in 1 .. Len(nal_log) :
        (Completed(k) /\ Fragmented(k))
        => FragmentBodies(k, 1) = SubSeq(NalBytes(k), 2, nal_log[k].len)

\* A unit has gone out in three fragments.
C15_Witness ==
    \E k \in 1 .. Len(nal_log) :
        Completed(k) /\ Fragmented(k) /\ Cardinality(Packets(k)) >= 3

\* C16: every fragment's FU indicator is F = 0, NRI = 3 for SPS, PPS, IDR and
\* non-IDR slices and 0 for every other type, type 28; its FU header has the
\* reserved bit 0 and the unit's type in the low 5 bits.
C16_FuHeaderBytes ==
    \A i \in 1 .. Len(sent) :
        Fragmented(sent[i].nal)
        => LET data == sent[i].data
               type == At(NalBytes(sent[i].nal), 0) % 32
           IN  /\ data[13] = (IF type \in {7, 8, 5, 1} THEN 3 * 32 ELSE 0) + 28
               /\ data[14] % 32 = type
               /\ Bit(data[14], 5) = 0

\* Two fragments of an SEI unit whose own header byte has NRI 3 have gone
\* out.
C16_Witness ==
    \E i, j \in 1 .. Len(sent) :
        /\ i < j
        /\ sent[i].nal = sent[j].nal
        /\ Fragmented(sent[i].nal)
        /\ At(NalBytes(sent[i].nal), 0) = 3 * 32 + 6

\* C20: every fragment of a unit sent down the FU-A arm carries at least one
\* byte of the unit behind its 2-byte FU header.
C20_NoEmptyFragment ==
    \A i \in 1 .. Len(sent) :
        Fragmented(sent[i].nal) => Len(sent[i].data) > 12 + 2

\* The greatest index a loop `for index in from..to` of get_nal reads: the
\* type byte at index + start_code with start_code = 4 (-1 if it never runs).
LastScanRead(from, to) == IF to > from THEN (to - 1) + MAX_START_CODE_LENGTH ELSE -1

\* C19: no index leaves its buffer: the reads of get_nal and the slices it
\* returns lie within its input, the advance of send_frame within
\* `remaining`, the slices of handle_nal within the unit, and packet length
\* and writes within the 2048-byte rtp_buffer.
C19_IndicesWithinBuffers ==
    /\ 0 <= remaining_at /\ remaining_at <= Len(frame_buffer)
    /\ (pc = "loop" /\ Len(remaining) > MAX_START_CODE_LENGTH)
       => LastScanRead(0, Len(remaining) - MAX_START_CODE_LENGTH) < Len(remaining)
    /\ pc \in {"handle", "frag"}
       => /\ remaining_at <= nal_at
          /\ nal_len >= 0
          /\ nal_at + nal_len <= Len(frame_buffer)
          /\ nal_len <= Len(remaining)
    /\ pc = "frag"
       => /\ 1 <= remaining_nal_at /\ remaining_nal_at <= nal_len
          /\ MoreFragments => MAX_RTP_BUF_SIZE - FU_A_SIZE <= Len(remaining_nal)
    /\ rtp_buffer_size <= 2048
    /\ Len(rtp_buffer) = 2048
    /\ \A i \in 1 .. Len(sent) : Len(sent[i].data) <= 2048

\* A fragment of the greatest length, 1412 bytes, has gone out, of a unit
\* that reaches to the end of its buffer.
C19_Witness ==
    \E i \in 1 .. Len(sent) :
        /\ Len(sent[i].data) = 12 + 1400
        /\ nal_log[sent[i].nal].at + nal_log[sent[i].nal].len = Len(frame_buffer)

\* C18: send_frame terminates: a unit get_nal returns is never empty, each
\* iteration that handles one moves `remaining` forward by at least one byte
\* and never past the end, the iterations are no more than the bytes of the
\* buffer, and a running call comes to its end.
C18_Terminates ==
    /\ [][(pc \in {"handle", "frag"} /\ pc' = "loop")
            => (remaining_at' > remaining_at /\ remaining_at' <= Len(frame_buffer))]_vars
    /\ [](pc = "handle" => nal_len >= 1)
    /\ [](Len(nal_log) <= Len(frame_buffer))
    /\ (pc = "loop") ~> (pc \in {"idle", "panicked"})

\* A call that went round its loop five times has returned.
C18_Witness == pc = "idle" /\ Len(nal_log) >= 5

\* The units the loop of send_frame hands to handle_nal, one after the other,
\* from `remaining` = buf[at..] on: where each begins in buf and its length.
RECURSIVE Rounds(_, _)
Rounds(buf, at) ==
    LET found == get_nal(Slice(buf, at, Len(buf)))
    IN  IF found.some
        THEN <<[at |-> at + found.at, len |-> found.len]>>
                 \o Rounds(buf, Advance(at, found.len))
        ELSE <<>>

\* C17: a send_to that fails is neither retried nor surfaced: every attempt
\* takes the next sequence number and the counter stands one past the last
\* attempt, failed or not; no byte range of a unit is attempted twice and
\* each attempt of a unit begins where the one before ended; a failure never
\* ends the call in a panic; and when send_frame has returned, the units
\* handled are those the loop finds in the buffer, each attempted from its
\* first byte to its last.
C17_SendFailureIgnored ==
    /\ \A i \in 1 .. Len(sent) - 1 :
          /\ SeqOf(sent[i + 1].data) = (SeqOf(sent[i].data) + 1) % U16_MODULUS
          /\ sent[i + 1].nal = sent[i].nal => sent[i + 1].from = sent[i].to
          /\ sent[i + 1].nal # sent[i].nal
             => /\ sent[i + 1].nal = sent[i].nal + 1
                /\ sent[i].to = nal_log[sent[i].nal].len
    /\ sent # <<>> => rtp_seq = (SeqOf(sent[Len(sent)].data) + 1) % U16_MODULUS
    /\ \A i, j \in 1 .. Len(sent) :
          (i # j /\ sent[i].nal = sent[j].nal) => sent[i].from # sent[j].from
    /\ pc = "panicked" => (overflow_checks /\ rtp_seq = U16_MODULUS - 1)
    /\ (pc = "idle" /\ calls > 0)
       => /\ [k \in 1 .. Len(nal_log) |-> [at |-> nal_log[k].at, len |-> nal_log[k].len]]
                = Rounds(frame_buffer, 0)
          /\ \A k \in 1 .. Len(nal_log) :
                /\ Packets(k) # {}
                /\ sent[Min(Packets(k))].from = (IF Fragmented(k) THEN 1 ELSE 0)
                /\ sent[Max(Packets(k))].to = nal_log[k].len

\* send_frame has returned from a call in which send_to failed for a fragment
\* that was not the last of its unit, and succeeded for a later packet of a
\* later unit.
C17_Witness ==
    /\ pc = "idle"
    /\ calls > 0
    /\ \E i, j \in 1 .. Len(sent) :
          /\ i < j
          /\ ~sent[i].ok
          /\ sent[i].to < nal_log[sent[i].nal].len
          /\ sent[j].ok
          /\ sent[j].nal > sent[i].nal


====
